---- MODULE Spec2Model ----
(***************************************************************************)
(* Verification model of three artifacts of the FreeIPA excerpt:           *)
(*   - install/ui/group.js: the nonposix checkbox widget and the group     *)
(*     adder dialog (posix checkbox drives the gidnumber field);           *)
(*   - install/ui/src/freeipa/_base/construct.js: is_constructor;          *)
(*   - install/updates/20-aci.update: the access control instructions,     *)
(*     evaluated for one request at a time.                                *)
(* Each part has its own specification (SpecUI, SpecCtor, SpecAci); the    *)
(* variables of the other parts keep their initial values.                 *)
(***************************************************************************)
EXTENDS Naturals, Sequences, FiniteSets

VARIABLES checked, gid_enabled, gid_value, events, last_value, last_op,
          save_result, save_pre,
          obj, ctor_pc, ctor_result,
          req, aci_pc, decision

ui_vars == <<checked, gid_enabled, gid_value, events, last_value, last_op,
             save_result, save_pre>>

ctor_vars == <<obj, ctor_pc, ctor_result>>

aci_vars == <<req, aci_pc, decision>>

vars == <<ui_vars, ctor_vars, aci_vars>>

----------------------------------------------------------------------------
(* Part 1: install/ui/group.js                                             *)

\* Number of checkbox change events followed in one behaviour.
MaxEvents == 10

\* Texts a user may type into the gidnumber field ("" is the empty field).
GidInputs == {"1000", "2000", "abc"}

\* IPA.checkbox_widget.save, kept as checkbox_save: the state of the input
\* as a one-element list.
checkbox_save(c) == <<c>>

\* Mutant of save: the posix value is passed through unconverted.
save_unconverted(c) == <<checkbox_save(c)[1]>>

\* IPA.group_nonposix_checkbox_widget.save: converts posix into non-posix.
save(c) ==
    LET value == checkbox_save(c)[1]
    IN  <<~value>>

\* The change handler of the checkbox input notifies value_changed with the
\* widget's saved value: the list handed to the attached listeners.
value_changed_args(c) == save(c)

\* field.reset(): the field goes back to its original (empty) value.
gid_field_reset == ""

\* field.set_enabled(enabled): the field's enabled flag becomes the argument.
gid_field_set_enabled(enabled) == enabled

\* Mutant of on_posix_change: the field is only ever disabled, so an
\* earlier event keeps it disabled.
on_posix_change_sticky(value) ==
    /\ gid_value' = IF value[1] THEN gid_field_reset ELSE gid_value
    /\ gid_enabled' = (gid_enabled /\ gid_field_set_enabled(~value[1]))

\* Mutant of on_posix_change: set_enabled receives value[0] itself.
on_posix_change_flipped(value) ==
    /\ gid_value' = IF value[1] THEN gid_field_reset ELSE gid_value
    /\ gid_enabled' = gid_field_set_enabled(value[1])

\* IPA.group_adder_dialog.on_posix_change
on_posix_change(value) ==
    /\ gid_value' = IF value[1] THEN gid_field_reset ELSE gid_value
    /\ gid_enabled' = gid_field_set_enabled(~value[1])

InitUIVars ==
    /\ checked = TRUE
    /\ gid_enabled = TRUE
    /\ gid_value = ""
    /\ events = 0
    /\ last_value = <<>>
    /\ last_op = "init"
    /\ save_result = <<>>
    /\ save_pre = TRUE

\* The user clicks the posix checkbox: the input flips, the widget notifies
\* value_changed, and the attached on_posix_change runs to completion.
PosixChange ==
    /\ events < MaxEvents
    /\ checked' = ~checked
    /\ LET value == value_changed_args(checked')
       IN  /\ on_posix_change(value)
           /\ last_value' = value
    /\ events' = events + 1
    /\ last_op' = "change"
    /\ UNCHANGED <<save_result, save_pre>>

\* The dialog collects the record: save() of the nonposix widget is called.
Save ==
    /\ save_result' = save(checked)
    /\ save_pre' = checked
    /\ last_op' = "save"
    /\ UNCHANGED <<checked, gid_enabled, gid_value, events, last_value>>

\* The user types into the gidnumber field, which a disabled field refuses.
TypeGid ==
    /\ gid_enabled
    /\ \E text \in GidInputs \cup {""} :
          /\ text # gid_value
          /\ gid_value' = text
    /\ last_op' = "type"
    /\ UNCHANGED <<checked, gid_enabled, events, last_value, save_result,
                   save_pre>>

----------------------------------------------------------------------------
(* Part 2: install/ui/src/freeipa/_base/construct.js                       *)

\* What a JavaScript value is for the typeof operator; "absent" stands for
\* a property that is not there.
PropKinds == {"absent", "undefined", "null", "boolean", "number", "string",
              "object", "function"}

\* JavaScript values as is_constructor can tell them apart: the kind of the
\* value, the kind of its own property 'extend', the kind of the 'extend'
\* its prototype chain supplies, and whether dojo/_base/declare made it.
\* declare installs its own extend function on every class it returns.
JSValues ==
    { [kind |-> k, own |-> "absent", inherited |-> "absent",
       declared |-> FALSE] : k \in {"undefined", "null"} }
    \cup
    { [kind |-> k, own |-> "absent", inherited |-> i, declared |-> FALSE] :
          k \in {"boolean", "number", "string"}, i \in PropKinds }
    \cup
    { [kind |-> k, own |-> o, inherited |-> i, declared |-> FALSE] :
          k \in {"object", "function"}, o \in PropKinds, i \in PropKinds }
    \cup
    { [kind |-> "function", own |-> "function", inherited |-> i,
       declared |-> TRUE] : i \in PropKinds }

\* typeof of a value kind
TypeOf(kind) ==
    CASE kind = "null" -> "object"
      [] kind = "absent" -> "undefined"
      [] OTHER -> kind

Returned(b) == [thrown |-> FALSE, value |-> b]

Thrown == [thrown |-> TRUE, value |-> FALSE]

\* obj.extend: a TypeError on undefined and null, else the own property,
\* else the one found on the prototype chain, else undefined.
GetExtend(o) ==
    IF o.kind \in {"undefined", "null"}
    THEN [thrown |-> TRUE, kind |-> "undefined"]
    ELSE [thrown |-> FALSE,
          kind |-> IF o.own # "absent" THEN o.own ELSE o.inherited]

\* Mutant of is_constructor: obj.extend is read before obj is tested.
is_constructor_eager(o) ==
    LET extend == GetExtend(o)
    IN  IF extend.thrown
        THEN Thrown
        ELSE Returned(TypeOf(o.kind) = "function"
                      /\ TypeOf(extend.kind) = "function")

\* construct.is_constructor: && evaluates its right operand only when the
\* left one is true.
is_constructor(o) ==
    IF TypeOf(o.kind) = "function"
    THEN LET extend == GetExtend(o)
         IN  IF extend.thrown
             THEN Thrown
             ELSE Returned(TypeOf(extend.kind) = "function")
    ELSE Returned(FALSE)

InitCtorVars ==
    /\ obj = [kind |-> "undefined", own |-> "absent", inherited |-> "absent",
              declared |-> FALSE]
    /\ ctor_pc = "ready"
    /\ ctor_result = Returned(FALSE)

\* A caller hands obj to is_constructor.
CallIsConstructor ==
    /\ ctor_pc = "ready"
    /\ ctor_result' = is_constructor(obj)
    /\ ctor_pc' = "done"
    /\ UNCHANGED obj

----------------------------------------------------------------------------
(* Part 3: install/updates/20-aci.update                                   *)

\* Distinguished names, written from the root down.
Suffix == <<"$SUFFIX">>

AccountsDN == <<"$SUFFIX", "cn=accounts">>

ComputersDN == <<"$SUFFIX", "cn=accounts", "cn=computers">>

NetgroupsDN == <<"$SUFFIX", "cn=alt", "cn=ng">>

AdminsDN == <<"$SUFFIX", "cn=accounts", "cn=groups", "cn=admins">>

EditorsDN == <<"$SUFFIX", "cn=accounts", "cn=groups", "cn=editors">>

AliceDN == <<"$SUFFIX", "cn=accounts", "cn=users", "uid=alice">>

HostDN == <<"$SUFFIX", "cn=accounts", "cn=computers", "fqdn=host1">>

ManagedNetgroupDN == <<"$SUFFIX", "cn=alt", "cn=ng", "cn=ng1">>

\* The DN of an anonymous bind.
Anonymous == <<>>

\* An attribute description: the attribute type and its subtype option.
At(base, opt) == [base |-> base, opt |-> opt]

A(base) == At(base, "")

AllAttrs == { A("*") }

\* The rights the keyword "all" stands for (everything except proxy).
AllRights == {"read", "write", "add", "delete", "search", "compare",
              "selfwrite"}

\* The exclusion list of the oldest 'Admin can manage any entry' the update
\* removes: it names neither ipaNTHash nor ipaProtectedOperation.
AdminManageExcluded_obsolete ==
    { A("userPassword"), A("krbPrincipalKey"), A("sambaLMPassword"),
      A("sambaNTPassword"), A("passwordHistory"), A("krbMKey"),
      A("krbPrincipalName"), A("krbCanonicalName"), A("krbUPEnabled"),
      A("krbTicketPolicyReference"), A("krbPrincipalExpiration"),
      A("krbPasswordExpiration"), A("krbPwdPolicyReference"),
      A("krbPrincipalType"), A("krbPwdHistory"), A("krbLastPwdChange"),
      A("krbPrincipalAliases"), A("krbExtraData"),
      A("krbLastSuccessfulAuth"), A("krbLastFailedAuth"),
      A("krbLoginFailedCount"), A("krbTicketFlags"), A("ipaUniqueId"),
      A("memberOf"), A("serverHostName"), A("enrolledBy") }

\* The attributes 'Admin can manage any entry' added by the update excludes.
AdminManageExcluded ==
    { A("userPassword"), A("krbPrincipalKey"), A("sambaLMPassword"),
      A("sambaNTPassword"), A("passwordHistory"), A("krbMKey"),
      A("krbPrincipalName"), A("krbCanonicalName"),
      A("krbPasswordExpiration"), A("krbPwdHistory"),
      A("krbLastPwdChange"), A("krbExtraData"), A("krbLastSuccessfulAuth"),
      A("krbLastFailedAuth"), A("ipaUniqueId"), A("memberOf"),
      A("enrolledBy"), A("ipaNTHash"), A("ipaProtectedOperation") }

\* The attributes of 'Admins can write passwords'.
AdminWriteOnly ==
    { A("userPassword"), A("krbPrincipalKey"), A("sambaLMPassword"),
      A("sambaNTPassword"), A("passwordHistory"), A("ipaNTHash") }

\* The attributes of 'Admin read-only attributes'.
AdminReadOnly ==
    { A("ipaUniqueId"), A("memberOf"), A("enrolledBy"), A("krbExtraData"),
      A("krbPrincipalName"), A("krbCanonicalName"),
      A("krbPasswordExpiration"), A("krbLastPwdChange"),
      A("krbLastSuccessfulAuth"), A("krbLastFailedAuth") }

\* The attributes of 'Admins can write password policies'.
PasswordPolicyAttrs ==
    { A("krbMaxPwdLife"), A("krbMinPwdLife"), A("krbPwdMinDiffChars"),
      A("krbPwdMinLength"), A("krbPwdHistoryLength") }

ReadKeys == At("ipaProtectedOperation", "read_keys")

WriteKeys == At("ipaProtectedOperation", "write_keys")

\* One access control instruction: where it is stored, its targetfilter (the
\* object classes any one of which selects the entry, {} for no filter), its
\* targetattr (operator and list), allow or deny, the rights, and the bind
\* rule (keyword, group DN of a groupdn rule, attribute of a userattr rule).
Aci(name, dn, filter, op, attrs, type, rights, bind, group, attr) ==
    [name |-> name, dn |-> dn, filter |-> filter, op |-> op, attrs |-> attrs,
     type |-> type, rights |-> rights, bind |-> bind, group |-> group,
     attr |-> attr]

\* Mutant of ManagedNetgroupsDeny: the deny binds ldap:///self only.
ManagedNetgroupsDeny_self ==
    Aci("Managed netgroups cannot be modified", NetgroupsDN,
        {"mepManagedEntry"}, "=", AllAttrs, "deny", {"write"},
        "userdn_self", <<>>, "")

ManagedNetgroupsDeny ==
    Aci("Managed netgroups cannot be modified", NetgroupsDN,
        {"mepManagedEntry"}, "=", AllAttrs, "deny", {"write"},
        "userdn_all", <<>>, "")

SearchPasswordExistence ==
    Aci("Search existence of password and kerberos keys", AccountsDN,
        {}, "=", {A("userPassword"), A("krbPrincipalKey")}, "allow",
        {"search"}, "userdn_all", <<>>, "")

UsersOwnSshKeys ==
    Aci("selfservice:Users can manage their own SSH public keys", Suffix,
        {}, "=", {A("ipasshpubkey")}, "allow", {"write"},
        "userdn_self", <<>>, "")

HostsOwnSshKeys ==
    Aci("Hosts can modify their own SSH public keys", ComputersDN,
        {}, "=", {A("ipasshpubkey")}, "allow", {"write"},
        "userdn_self", <<>>, "")

AdminManageAnyEntry ==
    Aci("Admin can manage any entry", Suffix,
        {}, "!=", AdminManageExcluded, "allow", AllRights,
        "groupdn", AdminsDN, "")

AdminsWritePasswords ==
    Aci("Admins can write passwords", Suffix,
        {}, "=", AdminWriteOnly, "allow", {"add", "delete", "write"},
        "groupdn", AdminsDN, "")

AdminsWritePasswordPolicies ==
    Aci("Admins can write password policies", Suffix,
        {"krbPwdPolicy"}, "=", PasswordPolicyAttrs, "allow",
        {"read", "search", "compare", "write"}, "groupdn", AdminsDN, "")

AdminReadOnlyAttributes ==
    Aci("Admin read-only attributes", Suffix,
        {}, "=", AdminReadOnly, "allow", {"read", "search", "compare"},
        "groupdn", AdminsDN, "")

\* Mutant of UsersRetrieveKeys: the bind rule is ldap:///self, as in
\* 'Entities are allowed to rekey themselves'.
UsersRetrieveKeys_self ==
    Aci("Users allowed to retrieve keytab keys", AccountsDN,
        {}, "=", {ReadKeys}, "allow", {"read"},
        "userdn_self", <<>>, "")

UsersRetrieveKeys ==
    Aci("Users allowed to retrieve keytab keys", AccountsDN,
        {}, "=", {ReadKeys}, "allow", {"read"},
        "userattr_USERDN", <<>>, "ipaAllowedToPerform;read_keys")

GroupsRetrieveKeys ==
    Aci("Groups allowed to retrieve keytab keys", AccountsDN,
        {}, "=", {ReadKeys}, "allow", {"read"},
        "userattr_GROUPDN", <<>>, "ipaAllowedToPerform;read_keys")

UsersCreateKeys ==
    Aci("Users allowed to create keytab keys", AccountsDN,
        {}, "=", {WriteKeys}, "allow", {"write"},
        "userattr_USERDN", <<>>, "ipaAllowedToPerform;write_keys")

GroupsCreateKeys ==
    Aci("Groups allowed to create keytab keys", AccountsDN,
        {}, "=", {WriteKeys}, "allow", {"write"},
        "userattr_GROUPDN", <<>>, "ipaAllowedToPerform;write_keys")

EntitiesRekeyThemselves ==
    Aci("Entities are allowed to rekey themselves", AccountsDN,
        {}, "=", {WriteKeys}, "allow", {"write"},
        "userdn_self", <<>>, "")

AdminsRekeyAnyEntity ==
    Aci("Admins are allowed to rekey any entity", AccountsDN,
        {}, "=", {WriteKeys}, "allow", {"write"},
        "groupdn", AdminsDN, "")

EntitiesRekeyManaged ==
    Aci("Entities are allowed to rekey managed entries", AccountsDN,
        {"ipaHost", "ipaService"}, "=", {WriteKeys}, "allow", {"write"},
        "userattr_USERDN", <<>>, "managedby")

\* The instructions the update adds on and below $SUFFIX that bear on
\* modifying entries and on reading or writing their attributes.
InstalledAcis ==
    { ManagedNetgroupsDeny, SearchPasswordExistence, UsersOwnSshKeys,
      HostsOwnSshKeys, AdminManageAnyEntry, AdminsWritePasswords,
      AdminsWritePasswordPolicies, AdminReadOnlyAttributes,
      UsersRetrieveKeys, GroupsRetrieveKeys, UsersCreateKeys,
      GroupsCreateKeys, EntitiesRekeyThemselves, AdminsRekeyAnyEntity,
      EntitiesRekeyManaged }

\* The three instructions under "Access for high-level admins": read/write,
\* write-only, read-only.
AdminAcis ==
    { AdminManageAnyEntry, AdminsWritePasswords, AdminReadOnlyAttributes }

\* A bind identity: its DN (Anonymous for an anonymous bind) and the groups
\* it is a member of.
Binds ==
    { [dn |-> Anonymous, groups |-> {}] }
    \cup
    { [dn |-> d, groups |-> g] :
          d \in {AliceDN, HostDN}, g \in SUBSET {AdminsDN, EditorsDN} }

ObjectClassSets ==
    { {}, {"mepManagedEntry"}, {"ipaHost"}, {"ipaService"},
      {"krbPwdPolicy"} }

\* The values an entry's ipaAllowedToPerform;read_keys and ;write_keys take.
AllowedSets == { {}, {AliceDN}, {EditorsDN} }

ManagedBySets == { {}, {AliceDN} }

\* Directory entries: DN, object classes, and the DN-valued attributes the
\* userattr bind rules read.
Entries ==
    [dn : {AliceDN, HostDN, ManagedNetgroupDN},
     oc : ObjectClassSets,
     read_keys : AllowedSets,
     write_keys : AllowedSets,
     managedby : ManagedBySets]

RequestAttrs ==
    AdminManageExcluded \cup PasswordPolicyAttrs
    \cup { A("ipasshpubkey"), ReadKeys, WriteKeys, A("description") }

RequestRights == {"read", "search", "compare", "write", "add", "delete"}

Requests ==
    [bind : Binds, entry : Entries, attr : RequestAttrs,
     right : RequestRights]

\* dn is base or lies below it.
IsUnder(dn, base) ==
    /\ Len(base) <= Len(dn)
    /\ SubSeq(dn, 1, Len(base)) = base

\* The DN values of the entry attribute a userattr bind rule names.
EntryValues(entry, attr) ==
    CASE attr = "ipaAllowedToPerform;read_keys" -> entry.read_keys
      [] attr = "ipaAllowedToPerform;write_keys" -> entry.write_keys
      [] attr = "managedby" -> entry.managedby
      [] OTHER -> {}

\* The target of an instruction: the entry it is stored on and the subtree
\* below, narrowed by the targetfilter.
TargetMatches(aci, entry) ==
    /\ IsUnder(entry.dn, aci.dn)
    /\ aci.filter # {} => aci.filter \cap entry.oc # {}

\* targetattr: a listed attribute type covers its subtypes; "*" covers all.
AttrListed(aci, attr) ==
    \E t \in aci.attrs :
        \/ t.base = "*"
        \/ /\ t.base = attr.base
           /\ t.opt = "" \/ t.opt = attr.opt

AttrMatches(aci, attr) ==
    IF aci.op = "=" THEN AttrListed(aci, attr) ELSE ~AttrListed(aci, attr)

BindMatches(aci, bind, entry) ==
    CASE aci.bind = "userdn_anyone" -> TRUE
      [] aci.bind = "userdn_all" -> bind.dn # Anonymous
      [] aci.bind = "userdn_self" ->
            bind.dn # Anonymous /\ bind.dn = entry.dn
      [] aci.bind = "groupdn" -> aci.group \in bind.groups
      [] aci.bind = "userattr_USERDN" ->
            bind.dn # Anonymous /\ bind.dn \in EntryValues(entry, aci.attr)
      [] aci.bind = "userattr_GROUPDN" ->
            EntryValues(entry, aci.attr) \cap bind.groups # {}
      [] OTHER -> FALSE

Applies(aci, r) ==
    /\ TargetMatches(aci, r.entry)
    /\ AttrMatches(aci, r.attr)
    /\ r.right \in aci.rights
    /\ BindMatches(aci, r.bind, r.entry)

\* The instructions of acis that decide the request, by type.
Applicable(acis, type, r) ==
    { aci \in acis : aci.type = type /\ Applies(aci, r) }

\* Access is granted when some allow applies and no deny does: a deny
\* takes precedence over every allow, and nothing is granted by default.
Granted(acis, r) ==
    /\ Applicable(acis, "deny", r) = {}
    /\ Applicable(acis, "allow", r) # {}

InitAciVars ==
    /\ req = [bind |-> [dn |-> Anonymous, groups |-> {}],
              entry |-> [dn |-> AliceDN, oc |-> {}, read_keys |-> {},
                         write_keys |-> {}, managedby |-> {}],
              attr |-> A("description"), right |-> "read"]
    /\ aci_pc = "ready"
    /\ decision = [granted |-> FALSE, admin_granted |-> FALSE,
                   denied_by |-> {}, allowed_by |-> {}]

\* The directory server decides the request against the installed
\* instructions; admin_granted records what the three admin instructions
\* alone grant.
Evaluate ==
    /\ aci_pc = "ready"
    /\ decision' =
          [granted |-> Granted(InstalledAcis, req),
           admin_granted |-> Granted(AdminAcis, req),
           denied_by |->
              { aci.name : aci \in Applicable(InstalledAcis, "deny", req) },
           allowed_by |->
              { aci.name : aci \in Applicable(InstalledAcis, "allow", req) }]
    /\ aci_pc' = "done"
    /\ UNCHANGED req

----------------------------------------------------------------------------
(* Specifications                                                          *)

InitUI == InitUIVars /\ InitCtorVars /\ InitAciVars

NextUI ==
    \/ PosixChange /\ UNCHANGED <<ctor_vars, aci_vars>>
    \/ Save /\ UNCHANGED <<ctor_vars, aci_vars>>
    \/ TypeGid /\ UNCHANGED <<ctor_vars, aci_vars>>

SpecUI == InitUI /\ [][NextUI]_vars

InitCtor ==
    /\ InitUIVars
    /\ InitAciVars
    /\ obj \in JSValues
    /\ ctor_pc = "ready"
    /\ ctor_result = Returned(FALSE)

NextCtor == CallIsConstructor /\ UNCHANGED <<ui_vars, aci_vars>>

SpecCtor == InitCtor /\ [][NextCtor]_vars

InitAci ==
    /\ InitUIVars
    /\ InitCtorVars
    /\ req \in Requests
    /\ aci_pc = "ready"
    /\ decision = [granted |-> FALSE, admin_granted |-> FALSE,
                   denied_by |-> {}, allowed_by |-> {}]

NextAci == Evaluate /\ UNCHANGED <<ui_vars, ctor_vars>>

SpecAci == InitAci /\ [][NextAci]_vars

----------------------------------------------------------------------------
(* Properties                                                              *)

C2_SaveNegatesCheckbox ==
    last_op = "save" =>
        /\ Len(save_result) = 1
        /\ save_result[1] \in BOOLEAN
        /\ save_pre => save_result = <<FALSE>>
        /\ ~save_pre => save_result = <<TRUE>>
        /\ save_result[1] = ~checkbox_save(save_pre)[1]
        /\ checked = save_pre

\* save() was called on an unchecked checkbox.
C2_Witness ==
    /\ last_op = "save"
    /\ ~checked
    /\ save_result = <<TRUE>>

\* C3 as stated: is_constructor(obj) is false for every obj that is not a
\* class declared by dojo/_base/declare.
C3_TrueOnlyForDeclaredClasses ==
    (ctor_pc = "done" /\ ~obj.declared) =>
        /\ ~ctor_result.thrown
        /\ ctor_result.value = FALSE

\* C4: is_constructor(obj) never throws and equals
\* (typeof obj === 'function' and typeof obj.extend === 'function'),
\* hence is false for every obj that is not a function.
C4_SingleTypeCheck ==
    ctor_pc = "done" =>
        LET extend == IF obj.own # "absent" THEN obj.own ELSE obj.inherited
        IN  /\ ~ctor_result.thrown
            /\ ctor_result.value =
                  (obj.kind = "function" /\ extend = "function")
            /\ obj.kind # "function" => ctor_result.value = FALSE

\* is_constructor(null) has returned false.
C4_Witness ==
    /\ ctor_pc = "done"
    /\ obj.kind = "null"
    /\ ctor_result = Returned(FALSE)

\* C5: after any number of change events the gidnumber field is enabled
\* exactly when value[0] of the last event was false.
C5_LastValueWins ==
    events > 0 => (gid_enabled <=> ~last_value[1])

\* The third or a later event carried false and left the field enabled.
C5_Witness ==
    /\ events >= 3
    /\ last_value = <<FALSE>>
    /\ gid_enabled

\* C6: a write by an authenticated identity to any attribute of an entry
\* under cn=ng,cn=alt,$SUFFIX with objectClass mepManagedEntry is denied.
C6_ManagedNetgroupsWriteDenied ==
    ( /\ aci_pc = "done"
      /\ req.bind.dn # Anonymous
      /\ IsUnder(req.entry.dn, NetgroupsDN)
      /\ "mepManagedEntry" \in req.entry.oc
      /\ req.right = "write" ) =>
        /\ ~decision.granted
        /\ "Managed netgroups cannot be modified" \in decision.denied_by

\* A member of admins, whom 'Admin can manage any entry' allows, was refused
\* a write to a managed netgroup.
C6_Witness ==
    /\ aci_pc = "done"
    /\ AdminsDN \in req.bind.groups
    /\ req.entry.dn = ManagedNetgroupDN
    /\ "mepManagedEntry" \in req.entry.oc
    /\ req.right = "write"
    /\ "Admin can manage any entry" \in decision.allowed_by
    /\ ~decision.granted

\* C7: the write-only and the read-only attributes are all excluded from
\* 'Admin can manage any entry' and share no attribute, so the three admin
\* instructions grant no read of a write-only attribute and no write of a
\* read-only attribute.
C7_AdminAttributeClasses ==
    /\ AdminWriteOnly \subseteq AdminManageExcluded
    /\ AdminReadOnly \subseteq AdminManageExcluded
    /\ AdminWriteOnly \cap AdminReadOnly = {}
    /\ aci_pc = "done" =>
          /\ (req.attr \in AdminWriteOnly /\ req.right = "read")
                => ~decision.admin_granted
          /\ (req.attr \in AdminReadOnly /\ req.right = "write")
                => ~decision.admin_granted

\* A member of admins was refused the read of ipaNTHash.
C7_Witness ==
    /\ aci_pc = "done"
    /\ AdminsDN \in req.bind.groups
    /\ req.attr = A("ipaNTHash")
    /\ req.right = "read"
    /\ ~decision.admin_granted

\* The identity is named, itself or through one of its groups, in the
\* entry's ipaAllowedToPerform;read_keys.
NamedInReadKeys(r) ==
    \/ r.bind.dn # Anonymous /\ r.bind.dn \in r.entry.read_keys
    \/ r.bind.groups \cap r.entry.read_keys # {}

\* C8 as stated: under cn=accounts,$SUFFIX read of
\* ipaProtectedOperation;read_keys is granted only to an identity named in
\* the entry's ipaAllowedToPerform;read_keys, and a member of admins, the
\* entry itself and the entry's managedby are granted write_keys.
C8_KeytabAccess ==
    (aci_pc = "done" /\ IsUnder(req.entry.dn, AccountsDN)) =>
        /\ (req.attr = ReadKeys /\ req.right = "read" /\ decision.granted)
              => NamedInReadKeys(req)
        /\ ( /\ req.attr = WriteKeys
             /\ req.right = "write"
             /\ \/ AdminsDN \in req.bind.groups
                \/ req.bind.dn # Anonymous /\ req.bind.dn = req.entry.dn
                \/ req.bind.dn # Anonymous
                   /\ req.bind.dn \in req.entry.managedby )
              => decision.granted

\* C8 as amended: the same, the managedby of an entry being granted
\* write_keys when the entry is an ipaHost or an ipaService.
C8_KeytabAccessManagedHosts ==
    (aci_pc = "done" /\ IsUnder(req.entry.dn, AccountsDN)) =>
        /\ (req.attr = ReadKeys /\ req.right = "read" /\ decision.granted)
              => NamedInReadKeys(req)
        /\ ( /\ req.attr = WriteKeys
             /\ req.right = "write"
             /\ \/ AdminsDN \in req.bind.groups
                \/ req.bind.dn # Anonymous /\ req.bind.dn = req.entry.dn
                \/ /\ req.bind.dn # Anonymous
                   /\ req.bind.dn \in req.entry.managedby
                   /\ req.entry.oc \cap {"ipaHost", "ipaService"} # {} )
              => decision.granted

\* A member of admins who manages the host and is not named in its
\* ipaAllowedToPerform;read_keys was refused the read of read_keys.
C8_Witness ==
    /\ aci_pc = "done"
    /\ req.entry.dn = HostDN
    /\ "ipaHost" \in req.entry.oc
    /\ AdminsDN \in req.bind.groups
    /\ req.bind.dn \in req.entry.managedby
    /\ ~NamedInReadKeys(req)
    /\ req.attr = ReadKeys
    /\ req.right = "read"
    /\ ~decision.granted

====
